---------------------------- MODULE Spec2Model ----------------------------
(***************************************************************************)
(* pico-cli (src/src/main.rs): a host program that finds the serial port   *)
(* of a Pico board, opens it, spawns a reader thread that prints what the  *)
(* board says, and sends postcard/COBS encoded commands (LED on, two motor *)
(* ramps, stop, LED off; or one reset command).                            *)
(*                                                                         *)
(* Three specifications share this module:                                 *)
(*   Spec         one run of main() with its reader thread;                *)
(*   SpecCodec    the command codec applied to one command drawn in Init;  *)
(*   SpecResolve  the port resolution applied to inputs drawn in Init.     *)
(***************************************************************************)
EXTENDS Integers, Sequences, FiniteSets, TLC

VARIABLES
    \* ---- one run of main() ------------------------------------------------
    args,       \* parsed Args: [port, list_ports, reset]
    pc,         \* statement main is at (or returned from)
    status,     \* "running" | "ok" | "err" | "panic": how main ended
    err,        \* which error main returned
    port_name,  \* the local port_name of main (line 57)
    wopen,      \* main's handle `port` is open
    ropen,      \* the reader's cloned handle is open
    drive,      \* parameter of the running wind_up_motors call
    ret,        \* where that call returns to
    i,          \* loop variable of wind_up_motors
    woff,       \* bytes of the current frame write_all has written so far
    written,    \* every byte the serial channel has accepted, in order
    sent,       \* the commands whose write_all returned Ok, in order
    exited,     \* the process has ended
    calls,      \* how often main has called find_port / open / thread::spawn
    \* ---- the reader thread ------------------------------------------------
    rpc,        \* "none" | "read" | "ok_arm" | "timeout_arm" | "failed" | "killed"
    text,       \* the reader's local String
    printed,    \* number of texts the reader has printed
    \* ---- SpecCodec ----------------------------------------------------------
    cmd,        \* the command under the codec
    phase,      \* "idle" | "built" | "encoded" | "decoded"
    payload,    \* to_allocvec(&cmd)
    frame,      \* to_allocvec_cobs(&cmd)
    decoded,    \* the decoder's result for frame
    stream,     \* frames of cmd written back to back
    \* ---- SpecResolve --------------------------------------------------------
    rin,        \* inputs of the resolution: [port, ports, enum_ok]
    rout        \* its result, and whether it enumerated

mainVars    == <<args, pc, status, err, port_name, wopen, ropen, drive, ret, i,
                 woff, written, sent, exited, calls>>
readerVars  == <<rpc, text, printed>>
codecVars   == <<cmd, phase, payload, frame, decoded, stream>>
resolveVars == <<rin, rout>>
vars        == <<mainVars, readerVars, codecVars, resolveVars>>

---------------------------------------------------------------------------
(* Bounds of the model *)

\* Motor levels drawn for the codec: the two ends of i8 and -Near..Near.
Near == 5
\* Frames of one command written back to back in SpecCodec.
MaxSends == 2
\* Longest enumeration result drawn in SpecResolve.
MaxPorts == 2
\* Texts the reader surfaces in one run.
MaxPrinted == 1

(* Program constants *)

MinI8 == -128
MaxI8 == 127
\* for i in 0..=100
RampMax == 100

---------------------------------------------------------------------------
(* Option<T> and Result<T, E> *)

None == [tag |-> "None"]
Some(x) == [tag |-> "Some", val |-> x]
Ok(x) == [tag |-> "Ok", val |-> x]
Err(e) == [tag |-> "Err", err |-> e]

---------------------------------------------------------------------------
(* The command model (lines 28-47) *)

I8 == MinI8..MaxI8

ResetToUsbBoot == [tag |-> "ResetToUsbBoot"]
MotorCommand(a, b, c, d) == [tag |-> "MotorCommand", a |-> a, b |-> b, c |-> c, d |-> d]
LedCommand(s) == [tag |-> "LedCommand", status |-> s]

\* MotorCommand::default()
MotorDefault == MotorCommand(0, 0, 0, 0)

Levels == {v \in I8 : v = MinI8 \/ v = MaxI8 \/ (-Near <= v /\ v <= Near)}

Commands ==
    {ResetToUsbBoot}
    \cup {LedCommand(s) : s \in BOOLEAN}
    \cup {MotorCommand(a, b, c, d) : a \in Levels, b \in Levels, c \in Levels, d \in Levels}

---------------------------------------------------------------------------
(* postcard: to_allocvec and to_allocvec_cobs *)

\* An i8 written as sign and magnitude.
ToByteSignMagnitude(v) == (IF v < 0 THEN 128 - v ELSE v) % 256

\* An i8 on the wire: its two's-complement byte.
ToByte(v) == (v + 256) % 256
FromByte(b) == IF b >= 128 THEN b - 256 ELSE b

\* The same serializer with the first two motor fields written in the wrong
\* order.
SerializeSwapped(c) ==
    CASE c.tag = "ResetToUsbBoot" -> <<0>>
      [] c.tag = "MotorCommand" -> <<1, ToByte(c.b), ToByte(c.a), ToByte(c.c), ToByte(c.d)>>
      [] c.tag = "LedCommand" -> <<2, IF c.status THEN 1 ELSE 0>>

\* to_allocvec(&command): the variant's index in declaration order as a
\* varint (one byte below 128), then the variant's fields in declaration
\* order; an i8 is one byte, a bool is 0 or 1.
Serialize(c) ==
    CASE c.tag = "ResetToUsbBoot" -> <<0>>
      [] c.tag = "MotorCommand" -> <<1, ToByte(c.a), ToByte(c.b), ToByte(c.c), ToByte(c.d)>>
      [] c.tag = "LedCommand" -> <<2, IF c.status THEN 1 ELSE 0>>

\* Length of the longest prefix of s that holds no zero byte.
RECURSIVE RunLen(_)
RunLen(s) == IF s = <<>> \/ s[1] = 0 THEN 0 ELSE 1 + RunLen(Tail(s))

\* COBS that copies a zero byte instead of replacing it.
RECURSIVE CobsBlocksKeepZero(_)
CobsBlocksKeepZero(s) ==
    LET k == RunLen(s) IN
    IF k = Len(s) THEN <<k + 1>> \o s
    ELSE <<k + 1>> \o SubSeq(s, 1, k + 1) \o CobsBlocksKeepZero(SubSeq(s, k + 2, Len(s)))

\* COBS: every run of non-zero bytes is preceded by a code byte, the run's
\* length plus one; the zero that ended the run is dropped.  (A serialized
\* command has at most 5 bytes, so no run reaches the 254 bytes at which COBS
\* splits it.)
RECURSIVE CobsBlocks(_)
CobsBlocks(s) ==
    LET k == RunLen(s) IN
    IF k = Len(s) THEN <<k + 1>> \o s
    ELSE <<k + 1>> \o SubSeq(s, 1, k) \o CobsBlocks(SubSeq(s, k + 2, Len(s)))

\* to_allocvec_cobs(&command): the COBS form of the serialized command,
\* then the delimiter.
ToAllocvecCobs(c) == Append(CobsBlocks(Serialize(c)), 0)

---------------------------------------------------------------------------
(* The decoder: the inverse the derive(Deserialize) of Command is for *)

Malformed == Err("Malformed")
UnknownVariant == Err("UnknownVariant")

\* Position of the first zero byte of s, 0 when it has none.
FirstZero(s) == IF \E p \in 1..Len(s) : s[p] = 0
                THEN CHOOSE p \in 1..Len(s) : s[p] = 0 /\ \A q \in 1..(p - 1) : s[q] # 0
                ELSE 0

\* The blocks of a frame body (no zero byte in s) back to the payload.
RECURSIVE Unstuff(_)
Unstuff(s) ==
    IF s = <<>> THEN Ok(<<>>)
    ELSE LET n == s[1] IN
         IF n > Len(s) THEN Malformed
         ELSE LET blk  == SubSeq(s, 2, n)
                  rest == SubSeq(s, n + 1, Len(s))
              IN  IF rest = <<>> THEN Ok(blk)
                  ELSE LET more == Unstuff(rest) IN
                       IF more.tag = "Err" THEN more
                       ELSE Ok(blk \o <<0>> \o more.val)

CobsDecode(f) ==
    LET z == FirstZero(f) IN
    IF z = 0 \/ z # Len(f) THEN Malformed ELSE Unstuff(SubSeq(f, 1, z - 1))

\* Discriminant first, then the fields in declaration order.
Deserialize(bytes) ==
    IF bytes = <<>> THEN Malformed
    ELSE CASE bytes[1] = 0 -> Ok(ResetToUsbBoot)
           [] bytes[1] = 1 ->
                IF Len(bytes) < 5 THEN Malformed
                ELSE Ok(MotorCommand(FromByte(bytes[2]), FromByte(bytes[3]),
                                     FromByte(bytes[4]), FromByte(bytes[5])))
           [] bytes[1] = 2 ->
                IF Len(bytes) < 2 \/ bytes[2] > 1 THEN Malformed
                ELSE Ok(LedCommand(bytes[2] = 1))
           [] OTHER -> UnknownVariant

Decode(f) ==
    LET body == CobsDecode(f) IN
    IF body.tag = "Err" THEN body ELSE Deserialize(body.val)

---------------------------------------------------------------------------
(* Port resolution (lines 57-61 and find_port, lines 201-212) *)

\* Strings that are compared are sequences of ASCII codes.
\* "picoplayground"
Token == <<112, 105, 99, 111, 112, 108, 97, 121, 103, 114, 111, 117, 110, 100>>
\* "PICOPLAYGROUND"
TokenUpper == <<80, 73, 67, 79, 80, 76, 65, 89, 71, 82, 79, 85, 78, 68>>
\* "PicoPlayground"
TokenMixed == <<80, 105, 99, 111, 80, 108, 97, 121, 103, 114, 111, 117, 110, 100>>
\* "picoplayground2"
TokenLonger == <<112, 105, 99, 111, 112, 108, 97, 121, 103, 114, 111, 117, 110, 100, 50>>

\* u8::to_ascii_lowercase
ToAsciiLowercase(ch) == IF 65 <= ch /\ ch <= 90 THEN ch + 32 ELSE ch

\* str::eq_ignore_ascii_case
EqIgnoreAsciiCase(s, t) ==
    /\ Len(s) = Len(t)
    /\ \A k \in 1..Len(s) : ToAsciiLowercase(s[k]) = ToAsciiLowercase(t[k])

\* SerialPortType
UsbPort(serial) == [tag |-> "UsbPort", serial_number |-> serial]
BluetoothPort == [tag |-> "BluetoothPort"]
PciPort == [tag |-> "PciPort"]
UnknownPort == [tag |-> "Unknown"]

SerialNumbers == {None, Some(<<>>), Some(Token), Some(TokenUpper), Some(TokenMixed),
                  Some(TokenLonger)}
PortTypes == {UsbPort(sn) : sn \in SerialNumbers} \cup {BluetoothPort, PciPort, UnknownPort}
PortNames == {"/dev/ttyACM0", "/dev/ttyACM1"}
\* SerialPortInfo
PortInfos == {[port_name |-> n, port_type |-> t] : n \in PortNames, t \in PortTypes}

RECURSIVE SeqsUpTo(_, _)
SeqsUpTo(S, n) ==
    IF n = 0 THEN {<<>>}
    ELSE LET shorter == SeqsUpTo(S, n - 1) IN
         shorter \cup {Append(q, x) : q \in {r \in shorter : Len(r) = n - 1}, x \in S}

\* What available_ports() can return.
AvailablePorts == {Err("Enumeration")} \cup {Ok(ps) : ps \in SeqsUpTo(PortInfos, MaxPorts)}

ExplicitNames == {"/dev/ttyUSB7"}

\* info.serial_number.as_ref().map_or("", String::as_str)
SerialOrEmpty(sn) == IF sn.tag = "Some" THEN sn.val ELSE <<>>

\* A loop that remembers the last match instead of returning the first.
RECURSIVE FindInLast(_)
FindInLast(ports) ==
    IF ports = <<>> THEN Err("Failed to find port")
    ELSE LET port == Head(ports)
             later == FindInLast(Tail(ports))
         IN  IF later.tag = "Ok" THEN later
             ELSE IF /\ port.port_type.tag = "UsbPort"
                     /\ EqIgnoreAsciiCase(SerialOrEmpty(port.port_type.serial_number), Token)
                  THEN Ok(port.port_name)
                  ELSE later

\* The loop of find_port over the enumerated ports (lines 203-211).
RECURSIVE FindIn(_)
FindIn(ports) ==
    IF ports = <<>> THEN Err("Failed to find port")
    ELSE LET port == Head(ports) IN
         IF /\ port.port_type.tag = "UsbPort"
            /\ EqIgnoreAsciiCase(SerialOrEmpty(port.port_type.serial_number), Token)
         THEN Ok(port.port_name)
         ELSE FindIn(Tail(ports))

\* find_port(), given what available_ports() returned (line 202: `?`).
FindPort(avail) == IF avail.tag = "Err" THEN avail ELSE FindIn(avail.val)

\* A resolution that prefers a discovered device to the given name.
ResolvePortDiscoverFirst(port_arg, avail) ==
    IF port_arg.tag = "Some" /\ FindPort(avail).tag # "Ok"
    THEN [result |-> Ok(port_arg.val), enumerated |-> TRUE]
    ELSE [result |-> FindPort(avail), enumerated |-> TRUE]

\* Lines 57-61: the given name, or find_port()?.  `enumerated` records
\* whether available_ports() was called.
ResolvePort(port_arg, avail) ==
    IF port_arg.tag = "Some"
    THEN [result |-> Ok(port_arg.val), enumerated |-> FALSE]
    ELSE [result |-> FindPort(avail), enumerated |-> TRUE]

---------------------------------------------------------------------------
(* main() (lines 49-112) and wind_up_motors (lines 134-158) *)

\* i8 multiplication, kept to 8 bits (two's complement).
MulI8(x, y) == FromByte(ToByte((x * y) % 256))

\* A ramp command whose last field is left at its default.
RampCommandThree(step, dir) ==
    MotorCommand(MulI8(step, dir), MulI8(step, dir), MulI8(step, dir), 0)

\* Lines 136-141 and 147-152: all four fields are i * drive.
RampCommand(step, dir) ==
    MotorCommand(MulI8(step, dir), MulI8(step, dir), MulI8(step, dir), MulI8(step, dir))

\* Where the reader thread is while it runs.
ReaderLive == {"read", "ok_arm", "timeout_arm"}

\* The statements of main and wind_up_motors that send a frame.
SendPcs == {"reset", "led_on", "up", "down", "stop", "led_off"}
RampPcs == {"up", "up_sleep", "down", "down_sleep"}

\* The command built at the statement main is at.
CurCmd ==
    CASE pc = "reset" -> ResetToUsbBoot
      [] pc = "led_on" -> LedCommand(TRUE)
      [] pc \in {"up", "down"} -> RampCommand(i, drive)
      [] pc = "stop" -> MotorDefault
      [] pc = "led_off" -> LedCommand(FALSE)

\* A main that returns after the stop command, without the LED command.
AfterSendNoLedOff ==
    CASE pc = "reset" -> "reset_sleep"
      [] pc = "led_on" -> "call1"
      [] pc = "up" -> "up_sleep"
      [] pc = "down" -> "down_sleep"
      [] pc = "stop" -> "return"
      [] pc = "led_off" -> "return"

\* A reset branch that returns without sleeping.
AfterSendNoDelay ==
    CASE pc = "reset" -> "return"
      [] pc = "led_on" -> "call1"
      [] pc = "up" -> "up_sleep"
      [] pc = "down" -> "down_sleep"
      [] pc = "stop" -> "led_off"
      [] pc = "led_off" -> "return"

\* Where main goes when the write_all at pc has returned Ok.
AfterSend ==
    CASE pc = "reset" -> "reset_sleep"
      [] pc = "led_on" -> "call1"
      [] pc = "up" -> "up_sleep"
      [] pc = "down" -> "down_sleep"
      [] pc = "stop" -> "led_off"
      [] pc = "led_off" -> "return"

\* A write_all that forgets to drop the bytes already written from its buffer.
WriteChunkFromStart(f, off, n) == SubSeq(f, 1, n)

\* The bytes one write call takes from the rest of the frame: write_all
\* calls write until the buffer is empty, each call taking n >= 1 bytes.
WriteChunk(f, off, n) == SubSeq(f, off + 1, off + n)

CodecIdle ==
    /\ cmd = None /\ phase = "idle" /\ payload = <<>> /\ frame = <<>>
    /\ decoded = None /\ stream = <<>>
ResolveIdle == rin = None /\ rout = None
MainIdle ==
    /\ args = None /\ pc = "idle" /\ status = "idle" /\ err = "none"
    /\ port_name = None /\ wopen = FALSE /\ ropen = FALSE
    /\ drive = 0 /\ ret = "none" /\ i = 0 /\ woff = 0
    /\ written = <<>> /\ sent = <<>> /\ exited = FALSE
    /\ calls = [resolve |-> 0, open |-> 0, spawn |-> 0]
ReaderIdle == rpc = "none" /\ text = <<>> /\ printed = 0

\* Args::parse() (line 50).
Init ==
    /\ args \in [port : {None} \cup {Some(n) : n \in ExplicitNames},
                 list_ports : BOOLEAN, reset : BOOLEAN]
    /\ pc = "start" /\ status = "running" /\ err = "none"
    /\ port_name = None /\ wopen = FALSE /\ ropen = FALSE
    /\ drive = 0 /\ ret = "none" /\ i = 0 /\ woff = 0
    /\ written = <<>> /\ sent = <<>> /\ exited = FALSE
    /\ calls = [resolve |-> 0, open |-> 0, spawn |-> 0]
    /\ ReaderIdle /\ CodecIdle /\ ResolveIdle

Running == status = "running" /\ ~exited

\* An error return that leaves main's handle open.
FailLeaks(e) ==
    /\ status' = "err" /\ err' = e /\ UNCHANGED wopen

\* main returns Err(e): its `port`, if open, is dropped.
Fail(e) ==
    /\ status' = "err" /\ err' = e /\ wopen' = FALSE

\* Lines 52-55: list_ports()?; return Ok(()).
ListPorts ==
    /\ Running /\ pc = "start" /\ args.list_ports
    /\ \E avail \in AvailablePorts :
         IF avail.tag = "Err"
         THEN Fail("enumeration") /\ UNCHANGED pc
         ELSE status' = "ok" /\ pc' = "return" /\ UNCHANGED <<err, wopen>>
    /\ UNCHANGED <<args, port_name, ropen, drive, ret, i, woff, written, sent, exited>>
    /\ UNCHANGED <<readerVars, codecVars, resolveVars>>
    /\ UNCHANGED calls

\* Lines 57-61: args.port is moved into port_name, or find_port()?.
Resolve ==
    /\ Running /\ pc = "start" /\ ~args.list_ports
    /\ \E avail \in AvailablePorts :
         LET r == ResolvePort(args.port, avail).result IN
         IF r.tag = "Ok"
         THEN /\ port_name' = Some(r.val) /\ pc' = "open"
              /\ UNCHANGED <<status, err, wopen>>
         ELSE /\ Fail(IF avail.tag = "Err" THEN "enumeration" ELSE "not_found")
              /\ UNCHANGED <<pc, port_name>>
    /\ args' = [args EXCEPT !.port = None]
    /\ UNCHANGED <<ropen, drive, ret, i, woff, written, sent, exited>>
    /\ UNCHANGED <<readerVars, codecVars, resolveVars>>
    /\ calls' = [calls EXCEPT !.resolve = @ + 1]

\* An open that is tried again when it fails.
OpenRetry ==
    /\ Running /\ pc = "open"
    /\ \E ok \in BOOLEAN :
         IF ok
         THEN wopen' = TRUE /\ pc' = "clone" /\ UNCHANGED <<status, err>>
         ELSE UNCHANGED <<pc, status, err, wopen>>
    /\ port_name' = None
    /\ UNCHANGED <<args, ropen, drive, ret, i, woff, written, sent, exited>>
    /\ UNCHANGED <<readerVars, codecVars, resolveVars>>
    /\ calls' = [calls EXCEPT !.open = @ + 1]

\* Line 63: serialport::new(port_name, 115200).open()?; port_name is moved.
Open ==
    /\ Running /\ pc = "open"
    /\ \E ok \in BOOLEAN :
         IF ok
         THEN wopen' = TRUE /\ pc' = "clone" /\ UNCHANGED <<status, err>>
         ELSE Fail("open") /\ UNCHANGED pc
    /\ port_name' = None
    /\ UNCHANGED <<args, ropen, drive, ret, i, woff, written, sent, exited>>
    /\ UNCHANGED <<readerVars, codecVars, resolveVars>>
    /\ calls' = [calls EXCEPT !.open = @ + 1]

\* Line 66: port.try_clone().unwrap(); a failure panics main, which drops
\* `port` while unwinding.
CloneHandle ==
    /\ Running /\ pc = "clone"
    /\ \E ok \in BOOLEAN :
         IF ok
         THEN ropen' = TRUE /\ pc' = "spawn" /\ UNCHANGED <<status, wopen>>
         ELSE status' = "panic" /\ wopen' = FALSE /\ UNCHANGED <<pc, ropen>>
    /\ UNCHANGED <<args, err, port_name, drive, ret, i, woff, written, sent, exited>>
    /\ UNCHANGED <<readerVars, codecVars, resolveVars>>
    /\ UNCHANGED calls

\* A spawn that starts two reader threads.
SpawnTwice ==
    /\ Running /\ pc = "spawn"
    /\ rpc' = "read"
    /\ pc' = IF args.reset THEN "reset" ELSE "led_on"
    /\ UNCHANGED <<args, status, err, port_name, wopen, ropen, drive, ret, i, woff,
                   written, sent, exited>>
    /\ UNCHANGED <<text, printed, codecVars, resolveVars>>
    /\ calls' = [calls EXCEPT !.spawn = @ + 2]

\* Lines 65-81 and 83: thread::spawn starts the reader; main goes on to the
\* reset branch or to the LED command.
Spawn ==
    /\ Running /\ pc = "spawn"
    /\ rpc' = "read"
    /\ pc' = IF args.reset THEN "reset" ELSE "led_on"
    /\ UNCHANGED <<args, status, err, port_name, wopen, ropen, drive, ret, i, woff,
                   written, sent, exited>>
    /\ UNCHANGED <<text, printed, codecVars, resolveVars>>
    /\ calls' = [calls EXCEPT !.spawn = @ + 1]

\* The commands main and wind_up_motors build, and the frame
\* to_allocvec_cobs gives for each; the encoding does not depend on the run.
MainCommands ==
    {ResetToUsbBoot, LedCommand(TRUE), LedCommand(FALSE), MotorDefault}
        \cup {RampCommand(step, dir) : step \in 0..RampMax, dir \in {1, -1}}
MainFrames == [c \in MainCommands |-> ToAllocvecCobs(c)]

\* A write that waits until the reader is back in its read call.
WriteAllWaitsForReader ==
    /\ Running /\ pc \in SendPcs /\ wopen /\ rpc = "read"
    /\ \E f \in {MainFrames[CurCmd]} :
       \E n \in 1..(Len(f) - woff) :
         /\ written' = written \o WriteChunk(f, woff, n)
         /\ IF woff + n = Len(f)
            THEN woff' = 0 /\ sent' = Append(sent, CurCmd) /\ pc' = AfterSend
            ELSE woff' = woff + n /\ UNCHANGED <<sent, pc>>
    /\ UNCHANGED <<args, status, err, port_name, wopen, ropen, drive, ret, i, exited>>
    /\ UNCHANGED <<readerVars, codecVars, resolveVars>>
    /\ UNCHANGED calls

\* One successful write call inside port.write_all(&frame) (lines 88, 95,
\* 104, 107, 142, 153); when the last byte is taken write_all returns Ok.
WriteAll ==
    /\ Running /\ pc \in SendPcs /\ wopen
    /\ \E f \in {MainFrames[CurCmd]} :
       \E n \in 1..(Len(f) - woff) :
         /\ written' = written \o WriteChunk(f, woff, n)
         /\ IF woff + n = Len(f)
            THEN woff' = 0 /\ sent' = Append(sent, CurCmd) /\ pc' = AfterSend
            ELSE woff' = woff + n /\ UNCHANGED <<sent, pc>>
    /\ UNCHANGED <<args, status, err, port_name, wopen, ropen, drive, ret, i, exited>>
    /\ UNCHANGED <<readerVars, codecVars, resolveVars>>
    /\ UNCHANGED calls

\* A handler that sends the stop command before giving up.
WriteFailStopsMotors ==
    /\ Running /\ pc \in SendPcs /\ wopen
    /\ Fail("send")
    /\ written' = written \o ToAllocvecCobs(MotorDefault)
    /\ sent' = Append(sent, MotorDefault)
    /\ UNCHANGED <<args, pc, port_name, ropen, drive, ret, i, woff, exited>>
    /\ UNCHANGED <<readerVars, codecVars, resolveVars>>
    /\ UNCHANGED calls

\* A write_all that reports an error after the rest of the frame went out.
WriteFailAfterFlush ==
    /\ Running /\ pc \in SendPcs /\ wopen
    /\ Fail("send")
    /\ written' = written \o SubSeq(ToAllocvecCobs(CurCmd), woff + 1, Len(ToAllocvecCobs(CurCmd)))
    /\ UNCHANGED <<args, pc, port_name, ropen, drive, ret, i, woff, sent, exited>>
    /\ UNCHANGED <<readerVars, codecVars, resolveVars>>
    /\ UNCHANGED calls

\* A write call inside write_all fails: write_all returns the error, `?`
\* returns it from wind_up_motors and from main.
WriteFail ==
    /\ Running /\ pc \in SendPcs /\ wopen
    /\ Fail("send")
    /\ UNCHANGED <<args, pc, port_name, ropen, drive, ret, i, woff, written, sent, exited>>
    /\ UNCHANGED <<readerVars, codecVars, resolveVars>>
    /\ UNCHANGED calls

\* Ramps called with directions 2 and -2.
CallRampDouble ==
    /\ Running /\ pc \in {"call1", "call2"}
    /\ drive' = (IF pc = "call1" THEN 2 ELSE -2)
    /\ ret' = (IF pc = "call1" THEN "call2" ELSE "stop")
    /\ i' = 0 /\ pc' = "up"
    /\ UNCHANGED <<args, status, err, port_name, wopen, ropen, woff, written, sent, exited>>
    /\ UNCHANGED <<readerVars, codecVars, resolveVars>>
    /\ UNCHANGED calls

\* Lines 100 and 101: wind_up_motors(&mut port, 1)? then (.., -1)?.
CallRamp ==
    /\ Running /\ pc \in {"call1", "call2"}
    /\ drive' = (IF pc = "call1" THEN 1 ELSE -1)
    /\ ret' = (IF pc = "call1" THEN "call2" ELSE "stop")
    /\ i' = 0 /\ pc' = "up"
    /\ UNCHANGED <<args, status, err, port_name, wopen, ropen, woff, written, sent, exited>>
    /\ UNCHANGED <<readerVars, codecVars, resolveVars>>
    /\ UNCHANGED calls

\* Lines 144 and 155: thread::sleep(50 ms), then the next iteration; the
\* first loop runs i over 0..=100, the second over (0..=100).rev(), and
\* after it wind_up_motors returns Ok.
RampSleep ==
    /\ Running /\ pc \in {"up_sleep", "down_sleep"}
    /\ IF pc = "up_sleep"
       THEN IF i < RampMax
            THEN i' = i + 1 /\ pc' = "up"
            ELSE i' = RampMax /\ pc' = "down"
       ELSE IF i > 0
            THEN i' = i - 1 /\ pc' = "down"
            ELSE i' = 0 /\ pc' = ret
    /\ UNCHANGED <<args, status, err, port_name, wopen, ropen, drive, ret, woff,
                   written, sent, exited>>
    /\ UNCHANGED <<readerVars, codecVars, resolveVars>>
    /\ UNCHANGED calls

\* Lines 90-91: thread::sleep(1 s); return Ok(()).
ResetSleep ==
    /\ Running /\ pc = "reset_sleep"
    /\ pc' = "return"
    /\ UNCHANGED <<args, status, err, port_name, wopen, ropen, drive, ret, i, woff,
                   written, sent, exited>>
    /\ UNCHANGED <<readerVars, codecVars, resolveVars>>
    /\ UNCHANGED calls

\* Lines 91 and 111: Ok(()); `port` is dropped.
Return ==
    /\ Running /\ pc = "return"
    /\ status' = "ok" /\ wopen' = FALSE
    /\ UNCHANGED <<args, pc, err, port_name, ropen, drive, ret, i, woff, written,
                   sent, exited>>
    /\ UNCHANGED <<readerVars, codecVars, resolveVars>>
    /\ UNCHANGED calls

\* main has returned or panicked: the process ends, which ends the reader
\* thread and closes whatever it still holds.
ProcessExit ==
    /\ status # "running" /\ ~exited
    /\ exited' = TRUE
    /\ ropen' = FALSE
    /\ rpc' = (IF rpc \in ReaderLive THEN "killed" ELSE rpc)
    /\ UNCHANGED <<args, pc, status, err, port_name, wopen, drive, ret, i, woff,
                   written, sent>>
    /\ UNCHANGED <<text, printed, codecVars, resolveVars>>
    /\ UNCHANGED calls

---------------------------------------------------------------------------
(* The reader thread (lines 67-80) *)

Texts == {<<>>, <<"text">>}

\* Lines 69-71: read_to_string returned Ok (line 70) or Err(TimedOut)
\* (line 71); either way what was read before it returned is in `text`.
ReadDone ==
    /\ ~exited /\ rpc = "read" /\ ropen
    /\ \E t \in Texts :
         /\ (t # <<>> => printed < MaxPrinted)
         /\ text' = t
    /\ \E arm \in {"ok_arm", "timeout_arm"} : rpc' = arm
    /\ UNCHANGED <<mainVars, printed, codecVars, resolveVars>>

\* A reader whose error also closes main's handle.
ReadErrorTearsDown ==
    /\ ~exited /\ rpc = "read" /\ ropen
    /\ rpc' = "failed" /\ ropen' = FALSE /\ wopen' = FALSE
    /\ UNCHANGED <<args, pc, status, err, port_name, drive, ret, i, woff,
                   written, sent, exited>>
    /\ UNCHANGED <<text, printed, codecVars, resolveVars>>
    /\ UNCHANGED calls

\* Lines 72-75: any other error is printed to stderr and the closure
\* returns, dropping the reader's handle; read_to_string leaves in `text`
\* what it had read before the error, and the return skips lines 77-79.
ReadError ==
    /\ ~exited /\ rpc = "read" /\ ropen
    /\ rpc' = "failed" /\ ropen' = FALSE
    /\ \E t \in Texts : text' = t
    /\ UNCHANGED <<args, pc, status, err, port_name, wopen, drive, ret, i, woff,
                   written, sent, exited>>
    /\ UNCHANGED <<printed, codecVars, resolveVars>>
    /\ UNCHANGED calls

\* Lines 77-79 and the next iteration's String::new() (line 68).
Surface ==
    /\ ~exited /\ rpc \in {"ok_arm", "timeout_arm"}
    /\ printed' = (IF text # <<>> THEN printed + 1 ELSE printed)
    /\ text' = <<>>
    /\ rpc' = "read"
    /\ UNCHANGED <<mainVars, codecVars, resolveVars>>

Next ==
    \/ ListPorts \/ Resolve \/ Open \/ CloneHandle \/ Spawn
    \/ WriteAll \/ WriteFail \/ CallRamp \/ RampSleep \/ ResetSleep
    \/ Return \/ ProcessExit
    \/ ReadDone \/ ReadError \/ Surface

Spec == Init /\ [][Next]_vars

\* The steps main takes by itself: the main thread is scheduled, its sleeps
\* end, and a write call returns.
MainStep ==
    \/ ListPorts \/ Resolve \/ Open \/ CloneHandle \/ Spawn
    \/ WriteAll \/ CallRamp \/ RampSleep \/ ResetSleep \/ Return

\* Fairness of the main path alone; the reader may stop anywhere.
SpecFair == Init /\ [][Next]_vars /\ WF_vars(MainStep)

---------------------------------------------------------------------------
(* SpecCodec: the codec applied to one command *)

InitCodec ==
    /\ cmd \in Commands /\ phase = "built"
    /\ payload = <<>> /\ frame = <<>> /\ decoded = None /\ stream = <<>>
    /\ MainIdle /\ ReaderIdle /\ ResolveIdle

\* Lines 86-87: to_allocvec_cobs(&command)? and to_allocvec(&command)?.
CodecEncode ==
    /\ phase = "built"
    /\ frame' = ToAllocvecCobs(cmd)
    /\ payload' = Serialize(cmd)
    /\ phase' = "encoded"
    /\ UNCHANGED <<cmd, decoded, stream, mainVars, readerVars, resolveVars>>

\* The receiving side decodes the frame.
CodecDecode ==
    /\ phase = "encoded"
    /\ decoded' = Decode(frame)
    /\ phase' = "decoded"
    /\ UNCHANGED <<cmd, payload, frame, stream, mainVars, readerVars, resolveVars>>

\* The frame is written to the channel once more (run_motors, lines 117-130,
\* writes the frame of one command again and again).
CodecSend ==
    /\ phase = "decoded"
    /\ Len(stream) < MaxSends * Len(frame)
    /\ stream' = stream \o frame
    /\ UNCHANGED <<cmd, phase, payload, frame, decoded, mainVars, readerVars, resolveVars>>

NextCodec == CodecEncode \/ CodecDecode \/ CodecSend

SpecCodec == InitCodec /\ [][NextCodec]_vars

---------------------------------------------------------------------------
(* SpecResolve: the port resolution applied to one input *)

InitResolve ==
    /\ rin \in [port : {None} \cup {Some(n) : n \in ExplicitNames \cup PortNames},
                avail : AvailablePorts]
    /\ rout = None
    /\ MainIdle /\ ReaderIdle /\ CodecIdle

\* Lines 57-61.
ResolveStep ==
    /\ rout = None
    /\ rout' = Some(ResolvePort(rin.port, rin.avail))
    /\ UNCHANGED <<rin, mainVars, readerVars, codecVars>>

NextResolve == ResolveStep

SpecResolve == InitResolve /\ [][NextResolve]_vars

---------------------------------------------------------------------------
(* Claims about the codec, under SpecCodec *)

\* C2: the frame of every command holds the delimiter byte 0 exactly once,
\* as its last byte; so a stream of frames written back to back holds one 0
\* per frame, each at a frame boundary.
C2_DelimiterOnlyLast ==
    phase # "built" =>
        /\ Len(frame) >= 1
        /\ frame[Len(frame)] = 0
        /\ \A p \in 1..(Len(frame) - 1) : frame[p] # 0
        /\ {p \in 1..Len(stream) : stream[p] = 0}
             = {k * Len(frame) : k \in 1..(Len(stream) \div Len(frame))}

C2_Witness ==
    /\ cmd = MotorDefault
    /\ stream = frame \o frame
    /\ frame = <<2, 1, 1, 1, 1, 1, 0>>

\* C3: decoding the frame of a command gives back that command.
C3_RoundTrip == phase = "decoded" => decoded = Ok(cmd)

C3_Witness ==
    /\ cmd = MotorCommand(5, -5, 0, 127)
    /\ phase = "decoded"
    /\ decoded.tag = "Ok" /\ decoded.val.b = -5

\* The command a serialized form stands for, read off the declared layout.
C4_FromLayout(bytes) ==
    CASE bytes[1] = 0 -> ResetToUsbBoot
      [] bytes[1] = 2 -> LedCommand(bytes[2] = 1)
      [] bytes[1] = 1 ->
           LET S(b) == IF b > MaxI8 THEN b - 256 ELSE b IN
           MotorCommand(S(bytes[2]), S(bytes[3]), S(bytes[4]), S(bytes[5]))

C4_Twos(v) == IF v < 0 THEN v + 256 ELSE v

\* C4: the serialized command is one discriminant byte (ResetToUsbBoot 0,
\* MotorCommand 1, LedCommand 2) and then the fields in declaration order:
\* none (1 byte), a, b, c, d as two's-complement bytes (5 bytes), or 0/1
\* (2 bytes); the command can be read back from it, so distinct commands
\* have distinct serialized forms.
C4_Layout ==
    phase # "built" =>
        /\ CASE cmd.tag = "ResetToUsbBoot" -> payload = <<0>>
             [] cmd.tag = "MotorCommand" ->
                  payload = <<1, C4_Twos(cmd.a), C4_Twos(cmd.b), C4_Twos(cmd.c), C4_Twos(cmd.d)>>
             [] cmd.tag = "LedCommand" ->
                  payload = <<2, IF cmd.status THEN 1 ELSE 0>>
        /\ \A p \in 1..Len(payload) : payload[p] \in 0..255
        /\ C4_FromLayout(payload) = cmd

C4_Witness ==
    /\ cmd = MotorCommand(-128, -1, 0, 127)
    /\ payload = <<1, 128, 255, 0, 127>>

---------------------------------------------------------------------------
(* Claims about the port resolution, under SpecResolve *)

C9_Lower(s) == [k \in 1..Len(s) |-> IF s[k] \in 65..90 THEN s[k] + 32 ELSE s[k]]

\* Positions of the USB ports whose serial number is the token, case ignored.
C9_Matching(ps) ==
    {k \in 1..Len(ps) :
        /\ ps[k].port_type.tag = "UsbPort"
        /\ ps[k].port_type.serial_number.tag = "Some"
        /\ C9_Lower(ps[k].port_type.serial_number.val) = Token}

\* C9: with no port name given, the result is the name of the first
\* enumerated USB port whose serial number is "picoplayground" ignoring
\* ASCII case; other ports never match; no match is an error, and an
\* enumeration error is returned as it is.
C9_FirstMatch ==
    (rout.tag = "Some" /\ rin.port.tag = "None") =>
        IF rin.avail.tag = "Err"
        THEN rout.val.result = rin.avail
        ELSE LET ps == rin.avail.val
                 M  == C9_Matching(ps)
             IN  IF M = {}
                 THEN rout.val.result = Err("Failed to find port")
                 ELSE rout.val.result
                        = Ok(ps[CHOOSE k \in M : \A j \in M : k <= j].port_name)

C9_Witness ==
    /\ rin.port.tag = "None"
    /\ rin.avail = Ok(<<[port_name |-> "/dev/ttyACM1", port_type |-> UsbPort(Some(TokenUpper))],
                        [port_name |-> "/dev/ttyACM0", port_type |-> UsbPort(Some(Token))]>>)
    /\ rout.tag = "Some" /\ rout.val.result = Ok("/dev/ttyACM1")

\* C10: a given port name is returned unchanged, without enumerating,
\* whatever the enumeration would have returned.
C10_ExplicitName ==
    (rout.tag = "Some" /\ rin.port.tag = "Some") =>
        /\ rout.val.result = Ok(rin.port.val)
        /\ ~rout.val.enumerated

C10_Witness ==
    /\ rin.port.tag = "Some" /\ rin.port.val = "/dev/ttyUSB7"
    /\ rin.avail = Ok(<<[port_name |-> "/dev/ttyACM0", port_type |-> UsbPort(Some(Token))]>>)
    /\ rout.tag = "Some" /\ rout.val.result = Ok("/dev/ttyUSB7")

---------------------------------------------------------------------------
(* Claims about one run of main, under Spec *)

C1_Abs(x) == IF x < 0 THEN -x ELSE x

\* The level of the k-th command of a ramp, before the direction is applied.
C1_Level(k) == IF k <= 101 THEN k - 1 ELSE 202 - k

\* sent[base+1 .. base+202] is the ramp of direction dir, and nothing follows.
C1_IsRamp(base, dir) ==
    /\ Len(sent) = base + 202
    /\ \A k \in 1..202 :
         LET c == sent[base + k] IN
         /\ c.tag = "MotorCommand"
         /\ c.a = c.b /\ c.b = c.c /\ c.c = c.d
         /\ c.a = dir * C1_Level(k)
         /\ k > 1 =>
              LET step == C1_Abs(c.a) - C1_Abs(sent[base + k - 1].a) IN
              IF k = 102 THEN step = 0 /\ c.a = dir * 100 ELSE C1_Abs(step) = 1

\* C1: a ramp call that meets no write error sends exactly 202 motor
\* commands, levels d*0..d*100 then d*100..d*0, the four fields equal, each
\* magnitude one away from the one before except the repeat at 100; the ramp
\* of direction -1 is the negation of the ramp of direction +1.
C1_RampShape ==
    /\ pc = "call1" => Len(sent) = 1
    /\ pc = "call2" => C1_IsRamp(1, 1)
    /\ pc = "stop" =>
         /\ C1_IsRamp(203, -1)
         /\ \A k \in 1..202 : sent[203 + k].a = -sent[1 + k].a

C1_Witness == pc = "stop" /\ status = "running" /\ Len(sent) = 405

\* The commands main issues, in order.
ExpectedRamp(dir) ==
    [k \in 1..202 |-> MotorCommand(dir * C1_Level(k), dir * C1_Level(k),
                                   dir * C1_Level(k), dir * C1_Level(k))]
NormalProgram ==
    <<LedCommand(TRUE)>> \o ExpectedRamp(1) \o ExpectedRamp(-1)
        \o <<MotorDefault, LedCommand(FALSE)>>
ResetProgram == <<ResetToUsbBoot>>

\* The frames of prog[lo..hi] back to back, and their total length (split
\* in halves, to keep the recursion shallow).
RECURSIVE StreamOf(_, _, _)
StreamOf(prog, lo, hi) ==
    IF lo > hi THEN <<>>
    ELSE IF lo = hi THEN ToAllocvecCobs(prog[lo])
    ELSE LET mid == (lo + hi) \div 2 IN
         StreamOf(prog, lo, mid) \o StreamOf(prog, mid + 1, hi)
RECURSIVE LenOf(_, _, _)
LenOf(prog, lo, hi) ==
    IF lo > hi THEN 0
    ELSE IF lo = hi THEN Len(ToAllocvecCobs(prog[lo]))
    ELSE LET mid == (lo + hi) \div 2 IN
         LenOf(prog, lo, mid) + LenOf(prog, mid + 1, hi)
\* Offset at which the n-th frame of a program ends, and the whole stream.
NormalEnds == [n \in 1..Len(NormalProgram) |-> LenOf(NormalProgram, 1, n)]
NormalStream == StreamOf(NormalProgram, 1, Len(NormalProgram))
ResetEnds == [n \in 1..Len(ResetProgram) |-> LenOf(ResetProgram, 1, n)]
ResetStream == StreamOf(ResetProgram, 1, Len(ResetProgram))

Program == IF args.reset THEN ResetProgram ELSE NormalProgram
ProgramStream == IF args.reset THEN ResetStream ELSE NormalStream
ProgramEnd(n) == IF n = 0 THEN 0
                 ELSE IF args.reset THEN ResetEnds[n] ELSE NormalEnds[n]

\* The bytes written after the last delimiter.
RECURSIVE TailLen(_, _)
TailLen(w, p) == IF p = 0 \/ w[p] = 0 THEN 0 ELSE 1 + TailLen(w, p - 1)

Delimiters(w) == Cardinality({p \in 1..Len(w) : w[p] = 0})

\* C5: when the reader has ended on an I/O error, main is as it was: its
\* handle is open wherever main is past the open, a send can go through,
\* and no error of main comes from the reader.
C5_FaultIsolation ==
    rpc = "failed" =>
        /\ (Running /\ pc \notin {"start", "open"}) => wopen
        /\ (Running /\ pc \in SendPcs) => ENABLED WriteAll
        /\ status = "err" => err \in {"send"}
        /\ status # "panic"

C5_Witness ==
    /\ rpc = "failed" /\ status = "ok" /\ ~args.reset
    /\ sent = NormalProgram /\ written = NormalStream

\* C6 as claimed: the bytes written are always whole frames.
C6_WholeFramesOnly ==
    /\ Len(sent) <= Len(Program)
    /\ sent = SubSeq(Program, 1, Len(sent))
    /\ written = SubSeq(ProgramStream, 1, ProgramEnd(Len(sent)))

\* C6 (amended): the bytes written are the frames of a prefix of the issued
\* commands, in issue order, nothing left out or repeated, followed by the
\* first woff bytes (fewer than the whole frame) of the next command's frame.
C6_InOrder ==
    LET n == Len(sent) IN
    /\ n <= Len(Program)
    /\ sent = SubSeq(Program, 1, n)
    /\ written = SubSeq(ProgramStream, 1, ProgramEnd(n) + woff)
    /\ woff > 0 => (n < Len(Program) /\ ProgramEnd(n) + woff < ProgramEnd(n + 1))

C6_Witness ==
    /\ status = "running" /\ pc = "down" /\ drive = -1 /\ i = 7
    /\ woff = 3 /\ Len(sent) = 203 + 101 + 93

\* Commands sent before the ramp step main is at: the LED command, the
\* first ramp when this is the second, and the steps of this ramp so far.
C7_StepsBefore ==
    1 + (IF drive = 1 THEN 0 ELSE 202) + (IF pc = "up" THEN i ELSE 101 + (100 - i))

\* The level of the ramp step before the one main is at.
C7_LevelBefore ==
    drive * (IF pc = "up" THEN (IF i = 0 THEN 0 ELSE i - 1)
                          ELSE (IF i = 100 THEN 100 ELSE i + 1))

C7_Failed == status = "err" /\ err = "send" /\ pc \in {"up", "down"}

C7_State ==
    C7_Failed =>
        LET n == Len(sent) IN
        /\ n = C7_StepsBefore
        /\ sent = SubSeq(NormalProgram, 1, n)
        /\ Delimiters(written) = n
        /\ written = SubSeq(NormalStream, 1, NormalEnds[n] + woff)
        /\ n > 1 => sent[n] = MotorCommand(C7_LevelBefore, C7_LevelBefore,
                                           C7_LevelBefore, C7_LevelBefore)

\* C7: a send that fails during a ramp ends the ramp and main: every step
\* before it was sent and none after, the failed step is not sent again,
\* what was written stays written, the last motor command sent is the one
\* of the step before, and nothing is sent from then on.
C7_RampAborts ==
    /\ []C7_State
    /\ [][C7_Failed => UNCHANGED <<written, sent, pc, i, drive, woff, status, err>>]_vars

C7_Witness ==
    /\ C7_Failed /\ exited /\ pc = "down" /\ drive = 1 /\ i = 40
    /\ Len(sent) = 162 /\ sent[162].a = 41

\* C8 as claimed: the channel never holds a part of a frame.
C8_NeverPartial == written = <<>> \/ written[Len(written)] = 0

\* C8 (amended): a send is one write_all call, which may take several
\* writes: what the channel holds after the last delimiter is the first woff
\* bytes of the frame being sent, always fewer than the whole frame; so a
\* send that fails has written a part of its frame that stops before the
\* delimiter, and the delimiters written are those of the sends that
\* returned Ok.
C8_PartialOnlyOfCurrent ==
    LET t == TailLen(written, Len(written)) IN
    /\ t = woff
    /\ Delimiters(written) = Len(sent)
    /\ t > 0 =>
         /\ pc \in SendPcs
         /\ t < Len(ToAllocvecCobs(CurCmd))
         /\ SubSeq(written, Len(written) - t + 1, Len(written))
              = SubSeq(ToAllocvecCobs(CurCmd), 1, t)

C8_Witness ==
    /\ status = "err" /\ err = "send" /\ pc = "up" /\ i = 50 /\ woff = 4
    /\ TailLen(written, Len(written)) = 4

---------------------------------------------------------------------------
(* Claims about the session, under Spec *)

\* C11: there is at most one reader thread; it exists only after the one
\* successful open, is spawned before main writes its first byte, and runs
\* on its own handle.
C11_OneReader ==
    /\ calls.spawn <= 1
    /\ (rpc # "none") = (calls.spawn = 1)
    /\ rpc # "none" =>
         /\ calls.open = 1 /\ err # "open"
         /\ pc \notin {"start", "open", "clone", "spawn"}
    /\ rpc = "none" => (written = <<>> /\ sent = <<>>)
    /\ pc \in {"clone", "spawn"} => (written = <<>> /\ (status = "running" => wopen))
    /\ rpc \in ReaderLive => (ropen \/ exited)

C11_Witness ==
    /\ rpc = "read" /\ calls.spawn = 1 /\ ropen /\ ~wopen
    /\ status = "ok" /\ ~exited /\ Len(sent) = 407

C12_Fatal == status = "err" /\ err \in {"enumeration", "not_found", "open"}

C12_State ==
    /\ calls.resolve <= 1 /\ calls.open <= 1
    /\ (status # "running" /\ pc = "start" /\ ~args.list_ports) =>
         (status = "err" /\ err \in {"enumeration", "not_found"} /\ calls.open = 0)
    /\ (status # "running" /\ pc = "open") => (status = "err" /\ err = "open")
    /\ C12_Fatal =>
         /\ written = <<>> /\ sent = <<>>
         /\ calls.spawn = 0 /\ rpc = "none"
         /\ ~wopen /\ ~ropen

\* C12: a failed resolution or a failed open ends the run with an error:
\* each is tried at most once, nothing is tried after the failure, no reader
\* is spawned and no byte is written.
C12_NoRetry ==
    /\ []C12_State
    /\ [][C12_Fatal => UNCHANGED <<status, err, pc, calls, written, sent, rpc, wopen, ropen>>]_vars

C12_Witness ==
    /\ status = "err" /\ err = "open" /\ exited
    /\ calls = [resolve |-> 1, open |-> 1, spawn |-> 0]

\* C13: once main has ended its own handle is closed, and once the run has
\* ended no handle is open, the reader's duplicate included.
C13_Released ==
    /\ status # "running" => ~wopen
    /\ exited => (~wopen /\ ~ropen)

C13_Witness ==
    /\ exited /\ status = "err" /\ err = "send" /\ pc = "led_off"
    /\ rpc = "killed" /\ calls.open = 1

\* C14: after a timeout the reader goes on to read again; it ends only on
\* another I/O error or with the process; every non-empty text a read
\* obtained is surfaced, and nothing is surfaced for an empty one.
C14_TimeoutLoopsTextSurfaced ==
    [][/\ rpc = "timeout_arm" => rpc' \in {"timeout_arm", "read", "killed"}
       /\ (rpc \in ReaderLive /\ rpc' \notin ReaderLive) =>
            \/ rpc = "read" /\ rpc' = "failed"
            \/ rpc' = "killed" /\ exited'
       /\ (rpc \in {"ok_arm", "timeout_arm"} /\ rpc' = "read") =>
            printed' = printed + (IF text # <<>> THEN 1 ELSE 0)
       /\ printed' # printed => (rpc \in {"ok_arm", "timeout_arm"} /\ rpc' = "read")
       /\ (rpc = "read" /\ rpc' = "failed") => text' = <<>>
      ]_vars

\* C16: in a ramp i is in 0..100 and drive is 1 or -1, so i * drive is in
\* -100..100 and the 8-bit product is the product; the level sent is it.
C16_NoOverflow ==
    /\ pc \in RampPcs =>
         /\ i \in 0..100 /\ drive \in {1, -1}
         /\ i * drive >= -100 /\ i * drive <= 100
         /\ MulI8(i, drive) = i * drive
    /\ pc \in {"up", "down"} =>
         CurCmd = MotorCommand(i * drive, i * drive, i * drive, i * drive)
    /\ (sent # <<>> /\ sent[Len(sent)].tag = "MotorCommand") =>
         (sent[Len(sent)].a >= -100 /\ sent[Len(sent)].a <= 100)

C16_Witness ==
    /\ pc = "down_sleep" /\ drive = -1 /\ i = 100
    /\ sent[Len(sent)] = MotorCommand(-100, -100, -100, -100)
    /\ written[Len(written) - 1] = 156

\* C17: a run without --reset whose writes all succeed sends 407 frames:
\* LED on, the ramp of direction +1, the ramp of direction -1, the stop
\* command, LED off.
C17_FullSequence ==
    (status = "ok" /\ ~args.reset /\ ~args.list_ports) =>
        /\ Len(sent) = 407
        /\ sent[1] = LedCommand(TRUE)
        /\ \A k \in 1..202 :
             /\ sent[1 + k] = ExpectedRamp(1)[k]
             /\ sent[203 + k] = ExpectedRamp(-1)[k]
        /\ sent[406] = MotorCommand(0, 0, 0, 0)
        /\ sent[407] = LedCommand(FALSE)
        /\ Delimiters(written) = 407
        /\ written = NormalStream

C17_Witness ==
    /\ status = "ok" /\ exited /\ ~args.reset /\ ~args.list_ports
    /\ Len(sent) = 407 /\ sent[407] = LedCommand(FALSE)

C18_ResetRun == args.reset /\ ~args.list_ports

C18_State ==
    C18_ResetRun =>
        /\ Len(sent) <= 1
        /\ \A k \in 1..Len(sent) : sent[k] = ResetToUsbBoot
        /\ written = SubSeq(<<1, 1, 0>>, 1, Len(written))
        /\ (status = "ok" \/ pc \in {"reset_sleep", "return"}) =>
             (sent = <<ResetToUsbBoot>> /\ written = <<1, 1, 0>>)
        /\ (status = "err" /\ err = "send") => (pc = "reset" /\ sent = <<>>)
        /\ pc \notin {"led_on", "call1", "call2", "up", "up_sleep", "down", "down_sleep",
                      "stop", "led_off"}

\* C18: a reset run sends one frame, that of ResetToUsbBoot, then sleeps
\* and returns; it sends no Led and no Motor command; when the write fails
\* it returns the error without sleeping.
C18_ResetOnly ==
    /\ []C18_State
    /\ [][C18_ResetRun =>
            /\ (pc = "reset" /\ pc' # "reset") => pc' = "reset_sleep"
            /\ (pc # "return" /\ pc' = "return") => pc = "reset_sleep"
            /\ (status = "running" /\ status' = "ok") => pc = "return"
         ]_vars

C18_Witness ==
    /\ args.reset /\ ~args.list_ports /\ status = "ok" /\ exited
    /\ sent = <<ResetToUsbBoot>> /\ written = <<1, 1, 0>>

---------------------------------------------------------------------------
(* The claim about progress, under SpecFair *)

\* C15: with the main path scheduled fairly and whatever the reader does,
\* main ends; when it ends without an error it has sent its whole program.
C15_WriterNeverWaits ==
    <>(\/ status \in {"err", "panic"}
       \/ status = "ok" /\ (args.list_ports \/ (sent = Program /\ written = ProgramStream)))

C15_Witness ==
    /\ status = "ok" /\ ~args.list_ports /\ ~args.reset
    /\ sent = NormalProgram
    /\ rpc = "timeout_arm" /\ printed = 0 /\ ~exited

=============================================================================
